---- MODULE Spec2Model ----
(***************************************************************************)
(* rust-find (src/rust_find/src/main.rs): recursive enumeration of files    *)
(* under the given roots, the name / minimum-size / maximum-size filter     *)
(* chain, and the output of the surviving paths to the console or a file.   *)
(***************************************************************************)
EXTENDS Integers, Sequences, FiniteSets, TLC

\* ------------------------------------------------------------------ bounds
MaxDirs == 2
MaxPatterns == 2
MaxSize == 1

\* ------------------------------------------------------------ basic values
\* Option<T> as a sequence of at most one element.
None == <<>>
Some(x) == <<x>>
Option(S) == {None} \cup {Some(x) : x \in S}

RECURSIVE SeqsUpTo(_, _)
SeqsUpTo(S, k) ==
    IF k = 0 THEN {<<>>}
    ELSE LET shorter == SeqsUpTo(S, k - 1)
         IN  shorter \cup {Append(s, x) : s \in {t \in shorter : Len(t) = k - 1}, x \in S}

RECURSIVE Flatten(_)
Flatten(ss) == IF ss = <<>> THEN <<>> ELSE Head(ss) \o Flatten(Tail(ss))

\* A file or directory name is a sequence of characters; "?" stands for a byte
\* sequence that is not valid UTF-8.  A path is a sequence of names.
nA == <<"a">>
nB == <<"b">>
nAB == <<"a", "b">>
nBB == <<"b", "b">>
nS == <<"s">>
nT == <<"t">>
nK == <<"k">>
nL == <<"l">>
nBad == <<"?">>
nU == <<"u", "?">>
R1 == <<"r", "1">>
R2 == <<"r", "2">>
R3 == <<"r", "3">>
NX == <<"n", "x">>
NXBad == <<"n", "?">>
OutPath == <<<<"o", "u", "t">>>>

\* --------------------------------------------------------- the file system
\* What the std::fs calls of the program observe.  r1 is a healthy tree with a
\* nested and an empty directory; r2 holds an entry with an undecodable name, a
\* dangling link (no size), and a directory whose name is not UTF-8; r3 holds a
\* subdirectory that cannot be listed; nx and n? (a name that is not UTF-8) do
\* not exist.
RegularFile(size) == [kind |-> "file", size |-> size, entries |-> <<>>, listable |-> FALSE]
Dangling == [kind |-> "dangling", size |-> 0, entries |-> <<>>, listable |-> FALSE]
Directory(entries) == [kind |-> "dir", size |-> 0, entries |-> entries, listable |-> TRUE]
LockedDirectory == [kind |-> "dir", size |-> 0, entries |-> <<>>, listable |-> FALSE]

FS ==
    (<<R1>> :> Directory(<<nA, nS, nAB>>))
 @@ (<<R1, nA>> :> RegularFile(1))
 @@ (<<R1, nS>> :> Directory(<<nBB, nT>>))
 @@ (<<R1, nS, nBB>> :> RegularFile(0))
 @@ (<<R1, nS, nT>> :> Directory(<<>>))
 @@ (<<R1, nAB>> :> RegularFile(2))
 @@ (<<R2>> :> Directory(<<nBad, nU, nL, nB>>))
 @@ (<<R2, nBad>> :> RegularFile(1))
 @@ (<<R2, nU>> :> Directory(<<nA>>))
 @@ (<<R2, nU, nA>> :> RegularFile(2))
 @@ (<<R2, nL>> :> Dangling)
 @@ (<<R2, nB>> :> RegularFile(1))
 @@ (<<R3>> :> Directory(<<nA, nK, nB>>))
 @@ (<<R3, nA>> :> RegularFile(1))
 @@ (<<R3, nK>> :> LockedDirectory)
 @@ (<<R3, nB>> :> RegularFile(2))

Roots == {<<R1>>, <<R2>>, <<R3>>, <<NX>>, <<NXBad>>}

\* Path::exists and Path::is_dir follow links: a dangling link is neither.
exists(p) == p \in DOMAIN FS /\ FS[p].kind # "dangling"
is_dir(p) == p \in DOMAIN FS /\ FS[p].kind = "dir"
\* fs::read_dir(dir): Ok with the entries in host order, or Err.
read_dir_ok(dir) == is_dir(dir) /\ FS[dir].listable
read_dir(dir) == FS[dir].entries
\* filesize::PathExt::size_on_disk
size_on_disk(p) == IF exists(p) THEN Some(FS[p].size) ELSE None

\* OsStr::to_str: Some only for valid UTF-8.
name_to_str(name) == IF \E k \in 1..Len(name) : name[k] = "?" THEN None ELSE Some(name)
\* Path::file_name: the final component.
file_name(p) == IF p = <<>> THEN None ELSE Some(p[Len(p)])

RECURSIVE JoinPath(_)
JoinPath(p) ==
    IF Len(p) = 0 THEN <<>>
    ELSE IF Len(p) = 1 THEN p[1]
    ELSE p[1] \o <<"/">> \o JoinPath(Tail(p))
\* Path::to_str: the path as text, None when a component is not UTF-8.
path_to_str(p) ==
    IF \E k \in 1..Len(p) : name_to_str(p[k]) = None THEN None ELSE Some(JoinPath(p))
\* OsString::into_string: Ok only for valid UTF-8.
into_string(p) == path_to_str(p)
\* Path::display: lossy, an undecodable byte sequence prints as U+FFFD ("#").
display(p) ==
    LET s == JoinPath(p) IN [k \in 1..Len(s) |-> IF s[k] = "?" THEN "#" ELSE s[k]]

\* Mutant of from_path: the name taken lossily and a missing size read as 0.
from_path_lossy(p) ==
    LET fname == file_name(p) IN
    IF fname = None THEN None
    ELSE Some([path |-> p, name |-> fname[1],
               size_bytes |-> IF size_on_disk(p) = None THEN 0 ELSE size_on_disk(p)[1]])

\* MyFile::from_path
from_path(p) ==
    LET fname == file_name(p) IN
    IF fname = None THEN None
    ELSE LET name == name_to_str(fname[1]) IN
         IF name = None THEN None
         ELSE LET size == size_on_disk(p) IN
              IF size = None THEN None
              ELSE Some([path |-> p, name |-> name[1], size_bytes |-> size[1]])

\* ------------------------------------------------------------ console lines
WarnLine(msg, arg) == [tag |-> "warning", msg |-> msg, arg |-> arg]
SkipLine(msg, arg) == [tag |-> "info", msg |-> msg, arg |-> arg]
PathLine(p) == [tag |-> "path", msg |-> "", arg |-> display(p)]

\* --------------------------------------------------------------- get_files
\* rec_get_files: the vector built, the lines printed, and whether an unwrap
\* of read_dir panicked (the lines printed before the panic stay printed).
RECURSIVE rec_get_files(_), rec_entries(_, _, _)
rec_get_files(dir) ==
    IF ~read_dir_ok(dir)
    THEN [vec |-> <<>>, out |-> <<>>, panicked |-> TRUE]
    ELSE rec_entries(dir, 1, [vec |-> <<>>, out |-> <<>>, panicked |-> FALSE])
rec_entries(dir, k, acc) ==
    IF k > Len(read_dir(dir)) THEN acc
    ELSE LET path == Append(dir, read_dir(dir)[k]) IN
         IF ~is_dir(path)
         THEN LET file == from_path(path) IN
              IF file = None
              THEN rec_entries(dir, k + 1,
                       [acc EXCEPT !.out = @ \o <<WarnLine("could not access file", display(path)),
                                                  SkipLine("skipping search in directory", display(path))>>])
              ELSE rec_entries(dir, k + 1, [acc EXCEPT !.vec = Append(@, file[1])])
         ELSE LET sub == rec_get_files(path) IN
              IF sub.panicked
              THEN [vec |-> acc.vec, out |-> acc.out \o sub.out, panicked |-> TRUE]
              ELSE rec_entries(dir, k + 1,
                       [vec |-> acc.vec \o sub.vec, out |-> acc.out \o sub.out, panicked |-> FALSE])

\* ------------------------------------------------------------------ filters
\* Patterns are over the characters a, b, "." (any character) and "(" (an
\* unclosed group, which Regex::new rejects).
PatternStrings == {<<"a">>, <<"b", ".">>, <<"(">>}

\* Regex::new
regex_new(pattern) ==
    IF \E k \in 1..Len(pattern) : pattern[k] = "(" THEN None ELSE Some(pattern)
\* Regex::is_match: an unanchored search.
is_match(regex, name) ==
    \E off \in 0..(Len(name) - Len(regex)) :
        \A j \in 1..Len(regex) : regex[j] = "." \/ regex[j] = name[off + j]

RECURSIVE compile_patterns(_)
compile_patterns(patterns) ==
    IF patterns = <<>> THEN [regexes |-> <<>>, out |-> <<>>]
    ELSE LET rest == compile_patterns(Tail(patterns))
             regex == regex_new(Head(patterns))
         IN  IF regex = None
             THEN [regexes |-> rest.regexes,
                   out |-> <<WarnLine("invalid regex", Head(patterns)),
                             SkipLine("skipping regex match", Head(patterns))>> \o rest.out]
             ELSE [regexes |-> <<regex[1]>> \o rest.regexes, out |-> rest.out]

\* The filters work on references into the vector get_files returned: a
\* reference is the index of the record in `all`.
\* Mutant of matches_any: every pattern must match (AND instead of OR).
matches_all(regexes, name) == \A k \in 1..Len(regexes) : is_match(regexes[k], name)
matches_any(regexes, name) == \E k \in 1..Len(regexes) : is_match(regexes[k], name)
\* Mutant of filter_files_regex: with no compiled pattern, pass every file.
filter_files_regex_fallback(all, refs, patterns) ==
    LET regexes == compile_patterns(patterns).regexes
    IN  IF regexes = <<>> THEN refs
        ELSE SelectSeq(refs, LAMBDA r : matches_any(regexes, all[r].name))
filter_files_regex(all, refs, patterns) ==
    LET regexes == compile_patterns(patterns).regexes
    IN  SelectSeq(refs, LAMBDA r : matches_any(regexes, all[r].name))
\* Mutant of size_min_ok: an exclusive bound.
size_min_ok_strict(file, min_size) == file.size_bytes > min_size
size_min_ok(file, min_size) == file.size_bytes >= min_size
\* Mutant of filter_files_size_min: filters the whole enumeration, not the
\* candidates handed in.
filter_files_size_min_all(all, refs, min_size) ==
    SelectSeq([k \in 1..Len(all) |-> k], LAMBDA r : all[r].size_bytes >= min_size)
filter_files_size_min(all, refs, min_size) ==
    SelectSeq(refs, LAMBDA r : size_min_ok(all[r], min_size))
size_max_ok(file, max_size) == file.size_bytes <= max_size
filter_files_size_max(all, refs, max_size) ==
    SelectSeq(refs, LAMBDA r : size_max_ok(all[r], max_size))

\* -------------------------------------------------------------------- state
VARIABLES
    pc,       \* where main is
    cli,      \* the parsed command line
    i,        \* get_files: the index of the next root in dirs
    vec,      \* get_files: the vector being built
    files,    \* main: the vector get_files returned
    ffiles,   \* main: the current candidates, references into files
    stdout,   \* the lines printed so far
    dest,     \* the destination file on disk
    nwrites,  \* output_files: the write calls that succeeded
    err       \* the panic message, "" while none

vars == <<pc, cli, i, vec, files, ffiles, stdout, dest, nwrites, err>>

NoFile == [exists |-> FALSE, content |-> <<>>]
OldFile == [exists |-> TRUE, content |-> <<"o", "l", "d", "\n">>]

CLI ==
    [dirs : SeqsUpTo(Roots, MaxDirs),
     patterns : Option(SeqsUpTo(PatternStrings, MaxPatterns)),
     size_min : Option(0..MaxSize),
     size_max : Option(0..MaxSize),
     output : Option({OutPath})]

Init ==
    /\ cli \in CLI
    /\ dest \in (IF cli.output = None THEN {NoFile} ELSE {NoFile, OldFile})
    /\ pc = "get_files"
    /\ i = 1
    /\ vec = <<>>
    /\ files = <<>>
    /\ ffiles = <<>>
    /\ stdout = <<>>
    /\ nwrites = 0
    /\ err = ""

Panic(msg) == pc' = "panic" /\ err' = msg

\* get_files, one iteration of `for dir in dirs` whose root does not exist.
GetFilesMissing ==
    /\ pc = "get_files" /\ i <= Len(cli.dirs)
    /\ ~exists(cli.dirs[i])
    /\ into_string(cli.dirs[i]) # None
    /\ stdout' = stdout \o <<WarnLine("no such file or directory", into_string(cli.dirs[i])[1]),
                             SkipLine("skipping search in directory", into_string(cli.dirs[i])[1])>>
    /\ i' = i + 1
    /\ UNCHANGED <<pc, cli, vec, files, ffiles, dest, nwrites, err>>

\* get_files, a missing root whose name is not UTF-8: the unwrap of into_string
\* in the warning's arguments panics before anything is printed.
GetFilesMissingPanic ==
    /\ pc = "get_files" /\ i <= Len(cli.dirs)
    /\ ~exists(cli.dirs[i])
    /\ into_string(cli.dirs[i]) = None
    /\ Panic("into_string")
    /\ UNCHANGED <<cli, i, vec, files, ffiles, stdout, dest, nwrites>>

\* get_files, one iteration whose root exists and is walked to the end.
GetFilesWalk ==
    /\ pc = "get_files" /\ i <= Len(cli.dirs)
    /\ exists(cli.dirs[i])
    /\ LET r == rec_get_files(cli.dirs[i]) IN
        /\ ~r.panicked
        /\ stdout' = stdout \o r.out
        /\ vec' = vec \o r.vec
    /\ i' = i + 1
    /\ UNCHANGED <<pc, cli, files, ffiles, dest, nwrites, err>>

\* Mutant of GetFilesPanic: the listing failure is skipped, the walk goes on.
GetFilesPanic_Skip ==
    /\ pc = "get_files" /\ i <= Len(cli.dirs)
    /\ exists(cli.dirs[i])
    /\ LET r == rec_get_files(cli.dirs[i]) IN
        /\ r.panicked
        /\ stdout' = stdout \o r.out
        /\ vec' = vec \o r.vec
    /\ i' = i + 1
    /\ UNCHANGED <<pc, cli, files, ffiles, dest, nwrites, err>>

\* get_files, one iteration in which fs::read_dir(..).unwrap() panics.
GetFilesPanic ==
    /\ pc = "get_files" /\ i <= Len(cli.dirs)
    /\ exists(cli.dirs[i])
    /\ LET r == rec_get_files(cli.dirs[i]) IN
        /\ r.panicked
        /\ stdout' = stdout \o r.out
    /\ Panic("read_dir")
    /\ UNCHANGED <<cli, i, vec, files, ffiles, dest, nwrites>>

\* get_files returns; main collects the references to all the records.
GetFilesReturn ==
    /\ pc = "get_files" /\ i > Len(cli.dirs)
    /\ files' = vec
    /\ ffiles' = [k \in 1..Len(vec) |-> k]
    /\ pc' = "patterns"
    /\ UNCHANGED <<cli, i, vec, stdout, dest, nwrites, err>>

\* Mutant of MatchPatterns: absent patterns are filtered as an empty list.
MatchPatterns_NoneAsEmpty ==
    /\ pc = "patterns"
    /\ LET pats == IF cli.patterns = None THEN <<>> ELSE cli.patterns[1] IN
        /\ ffiles' = filter_files_regex(files, ffiles, pats)
        /\ stdout' = stdout \o compile_patterns(pats).out
    /\ pc' = "size_min"
    /\ UNCHANGED <<cli, i, vec, files, dest, nwrites, err>>

\* main: match cli.patterns
MatchPatterns ==
    /\ pc = "patterns"
    /\ IF cli.patterns = None
       THEN /\ ffiles' = [k \in 1..Len(files) |-> k]
            /\ stdout' = stdout
       ELSE /\ ffiles' = filter_files_regex(files, ffiles, cli.patterns[1])
            /\ stdout' = stdout \o compile_patterns(cli.patterns[1]).out
    /\ pc' = "size_min"
    /\ UNCHANGED <<cli, i, vec, files, dest, nwrites, err>>

\* main: match cli.size_min
MatchSizeMin ==
    /\ pc = "size_min"
    /\ ffiles' = IF cli.size_min = None THEN ffiles
                 ELSE filter_files_size_min(files, ffiles, cli.size_min[1])
    /\ pc' = "size_max"
    /\ UNCHANGED <<cli, i, vec, files, stdout, dest, nwrites, err>>

\* main: match cli.size_max
MatchSizeMax ==
    /\ pc = "size_max"
    /\ ffiles' = IF cli.size_max = None THEN ffiles
                 ELSE filter_files_size_max(files, ffiles, cli.size_max[1])
    /\ pc' = "output"
    /\ UNCHANGED <<cli, i, vec, files, stdout, dest, nwrites, err>>

\* main: match cli.output, None: print every path.
OutputConsole ==
    /\ pc = "output" /\ cli.output = None
    /\ stdout' = stdout \o [k \in 1..Len(ffiles) |-> PathLine(files[ffiles[k]].path)]
    /\ pc' = "done"
    /\ UNCHANGED <<cli, i, vec, files, ffiles, dest, nwrites, err>>

\* Mutant of OutputCreate: the file is created if missing but not truncated.
OutputCreate_NoTruncate ==
    /\ pc = "output" /\ cli.output # None
    /\ \E ok \in BOOLEAN :
        IF ok
        THEN /\ dest' = [exists |-> TRUE, content |-> dest.content]
             /\ pc' = "open"
             /\ err' = err
        ELSE /\ Panic("output failed")
             /\ dest' = dest
    /\ UNCHANGED <<cli, i, vec, files, ffiles, stdout, nwrites>>

\* output_files: File::create(path)?, the error unwrapped by main's expect.
OutputCreate ==
    /\ pc = "output" /\ cli.output # None
    /\ \E ok \in BOOLEAN :
        IF ok
        THEN /\ dest' = [exists |-> TRUE, content |-> <<>>]
             /\ pc' = "open"
             /\ err' = err
        ELSE /\ Panic("output failed")
             /\ dest' = dest
    /\ UNCHANGED <<cli, i, vec, files, ffiles, stdout, nwrites>>

\* output_files: OpenOptions::new().append(true).open(path).expect(..)
OutputOpen ==
    /\ pc = "open"
    /\ \E ok \in BOOLEAN :
        IF ok /\ dest.exists
        THEN pc' = "write" /\ err' = err
        ELSE Panic("cannot open file")
    /\ UNCHANGED <<cli, i, vec, files, ffiles, stdout, dest, nwrites>>

\* Mutant of OutputWrite: a failed write falls back to printing the remaining
\* paths on the console and the run completes.
OutputWrite_Fallback ==
    /\ pc = "write" /\ nwrites < 2 * Len(ffiles)
    /\ LET file == files[ffiles[(nwrites \div 2) + 1]]
           str == path_to_str(file.path)
       IN  IF nwrites % 2 = 0 /\ str = None
           THEN /\ Panic("conversion to string failed")
                /\ UNCHANGED <<dest, nwrites, stdout>>
           ELSE \E ok \in BOOLEAN :
                IF ok
                THEN /\ dest' = [dest EXCEPT !.content =
                                     @ \o (IF nwrites % 2 = 0 THEN str[1] ELSE <<"\n">>)]
                     /\ nwrites' = nwrites + 1
                     /\ UNCHANGED <<pc, err, stdout>>
                ELSE /\ stdout' = stdout \o [k \in 1..(Len(ffiles) - (nwrites \div 2)) |->
                                                 PathLine(files[ffiles[k + (nwrites \div 2)]].path)]
                     /\ pc' = "done"
                     /\ UNCHANGED <<dest, nwrites, err>>
    /\ UNCHANGED <<cli, i, vec, files, ffiles>>

\* output_files: the next output.write(..) of the loop, the path of a file or
\* the newline after it.
OutputWrite ==
    /\ pc = "write" /\ nwrites < 2 * Len(ffiles)
    /\ LET file == files[ffiles[(nwrites \div 2) + 1]]
           str == path_to_str(file.path)
       IN  IF nwrites % 2 = 0 /\ str = None
           THEN /\ Panic("conversion to string failed")
                /\ UNCHANGED <<dest, nwrites>>
           ELSE \E ok \in BOOLEAN :
                IF ok
                THEN /\ dest' = [dest EXCEPT !.content =
                                     @ \o (IF nwrites % 2 = 0 THEN str[1] ELSE <<"\n">>)]
                     /\ nwrites' = nwrites + 1
                     /\ UNCHANGED <<pc, err>>
                ELSE /\ Panic("write failed")
                     /\ UNCHANGED <<dest, nwrites>>
    /\ UNCHANGED <<cli, i, vec, files, ffiles, stdout>>

\* output_files returns Ok(()).
OutputReturn ==
    /\ pc = "write" /\ nwrites = 2 * Len(ffiles)
    /\ pc' = "done"
    /\ UNCHANGED <<cli, i, vec, files, ffiles, stdout, dest, nwrites, err>>

Next ==
    \/ GetFilesMissing
    \/ GetFilesMissingPanic
    \/ GetFilesWalk
    \/ GetFilesPanic
    \/ GetFilesReturn
    \/ MatchPatterns
    \/ MatchSizeMin
    \/ MatchSizeMax
    \/ OutputConsole
    \/ OutputCreate
    \/ OutputOpen
    \/ OutputWrite
    \/ OutputReturn

Spec == Init /\ [][Next]_vars

\* ------------------------------------------------------ vocabulary of claims
Range(s) == {s[k] : k \in 1..Len(s)}
dirs == cli.dirs
OutputErrs == {"output failed", "cannot open file", "conversion to string failed", "write failed"}
\* get_files has returned: the filter chain has run or is running.
Enumerated == pc \in {"patterns", "size_min", "size_max", "output", "open", "write", "done"}
                 \/ (pc = "panic" /\ err \in OutputErrs)
\* The filter chain is over: ffiles is the sequence handed to the output sink.
AtSink == pc \in {"output", "open", "write", "done"} \/ (pc = "panic" /\ err \in OutputErrs)
FinalSeq == [k \in 1..Len(ffiles) |-> files[ffiles[k]]]

\* The result lines on the console, and the lines of the destination file (the
\* text between newlines, a last unterminated line included).
PrintedPaths == {l.arg : l \in {x \in Range(stdout) : x.tag = "path"}}
RECURSIVE TextLines(_, _)
TextLines(text, cur) ==
    IF text = <<>> THEN (IF cur = <<>> THEN {} ELSE {cur})
    ELSE IF Head(text) = "\n" THEN {cur} \cup TextLines(Tail(text), <<>>)
    ELSE TextLines(Tail(text), Append(cur, Head(text)))
DestLines == IF dest.exists THEN TextLines(dest.content, <<>>) ELSE {}
\* The file's path is in the output of the run, on the console or in the file.
Appears(file) == display(file.path) \in PrintedPaths \/ JoinPath(file.path) \in DestLines

\* The configured predicates, stated from the configuration alone.
NameOK(file) ==
    cli.patterns = None
    \/ \E p \in Range(cli.patterns[1]) : regex_new(p) # None /\ is_match(regex_new(p)[1], file.name)
MinOK(file) == cli.size_min = None \/ file.size_bytes >= cli.size_min[1]
MaxOK(file) == cli.size_max = None \/ file.size_bytes <= cli.size_max[1]
AtMin(file) == cli.size_min # None /\ file.size_bytes = cli.size_min[1]
AtMax(file) == cli.size_max # None /\ file.size_bytes = cli.size_max[1]

\* C1 (as stated): a file strictly outside [size_min, size_max] never appears in
\* the final output, and a file exactly at a configured bound always appears in
\* the output of a completed run.
C1_AsStated ==
    \A file \in Range(files) :
        /\ (~MinOK(file) \/ ~MaxOK(file)) => ~Appears(file)
        /\ (pc = "done" /\ (AtMin(file) \/ AtMax(file))) => Appears(file)

\* C1 (amended): a file strictly outside [size_min, size_max] never appears in
\* the final output; a file exactly at a configured bound is kept by that bound's
\* stage, so in a completed run it appears exactly when it passes the other
\* configured filters (the name filter and the opposite bound).
C1_InclusiveBounds ==
    \A file \in Range(files) :
        /\ (~MinOK(file) \/ ~MaxOK(file)) => ~Appears(file)
        /\ (pc = "done" /\ AtMin(file)) => (Appears(file) <=> (NameOK(file) /\ MaxOK(file)))
        /\ (pc = "done" /\ AtMax(file)) => (Appears(file) <=> (NameOK(file) /\ MinOK(file)))

C1_Witness ==
    /\ pc = "done"
    /\ \E f, g, h \in Range(files) :
        /\ AtMin(f) /\ Appears(f)
        /\ ~MinOK(g) /\ ~Appears(g)
        /\ AtMax(h) /\ Appears(h)

\* C2: with patterns given, the name filter returns a file iff its name matches
\* at least one pattern that compiled, and a file matching no compiled pattern is
\* never in the output, whatever the size filters are.
C2_NameFilterOr ==
    cli.patterns # None =>
        /\ pc = "size_min" =>
              \A k \in 1..Len(files) : (k \in Range(ffiles)) <=> NameOK(files[k])
        /\ \A file \in Range(files) : ~NameOK(file) => ~Appears(file)

C2_Witness ==
    /\ pc = "done"
    /\ cli.patterns # None /\ Len(cli.patterns[1]) = 2
    /\ \E p \in Range(cli.patterns[1]) : regex_new(p) = None
    /\ \E f, g \in Range(files) : NameOK(f) /\ Appears(f) /\ ~NameOK(g) /\ MinOK(g) /\ MaxOK(g)
    /\ cli.size_min # None

\* C3: with patterns, size_min and size_max all absent, the sequence handed to
\* the output sink is the sequence get_files returned: same records, same order.
C3_NoFilterPassThrough ==
    (AtSink /\ cli.patterns = None /\ cli.size_min = None /\ cli.size_max = None) =>
        /\ files = vec
        /\ FinalSeq = vec
        /\ ffiles = [k \in 1..Len(vec) |-> k]

C3_Witness ==
    /\ pc = "output"
    /\ cli.patterns = None /\ cli.size_min = None /\ cli.size_max = None
    /\ Len(FinalSeq) >= 4

\* C4: a root that does not exist contributes no record and does not end the
\* process (a warning is printed for it); every other root, before or after it,
\* is enumerated and contributes its records.
ExistingOnly(ds) == SelectSeq(ds, LAMBDA d : exists(d))
WalkOf(ds) == Flatten([j \in 1..Len(ds) |-> rec_get_files(ds[j]).vec])
MissingWarnings(ds) ==
    Flatten([j \in 1..Len(ds) |->
                IF exists(ds[j]) THEN <<>>
                ELSE <<WarnLine("no such file or directory", display(ds[j]))>>])
C4_MissingRootSkipped ==
    /\ pc = "get_files" =>
          /\ vec = WalkOf(ExistingOnly(SubSeq(dirs, 1, i - 1)))
          /\ SelectSeq(stdout, LAMBDA l : l.msg = "no such file or directory")
                 = MissingWarnings(SubSeq(dirs, 1, i - 1))
    /\ Enumerated => files = WalkOf(ExistingOnly(dirs))
    /\ (pc = "panic" /\ ~Enumerated) => exists(dirs[i])

\* C8: an entry for which no record can be built (undecodable name, no size) is
\* skipped with a warning and never aborts the walk; get_files returns exactly
\* the records of the other non-directory entries, root after root in input
\* order, depth first inside a root, a root given twice contributing twice.
Buildable(p) == FS[p].kind = "file" /\ "?" \notin Range(p[Len(p)])
RECURSIVE TreeRecords(_)
TreeRecords(dir) ==
    Flatten([k \in 1..Len(FS[dir].entries) |->
        LET p == Append(dir, FS[dir].entries[k]) IN
        IF FS[p].kind = "dir" THEN TreeRecords(p)
        ELSE IF Buildable(p)
             THEN <<[path |-> p, name |-> p[Len(p)], size_bytes |-> FS[p].size]>>
             ELSE <<>>])
RECURSIVE Unbuildable(_)
Unbuildable(dir) ==
    Flatten([k \in 1..Len(FS[dir].entries) |->
        LET p == Append(dir, FS[dir].entries[k]) IN
        IF FS[p].kind = "dir" THEN Unbuildable(p)
        ELSE IF Buildable(p) THEN <<>> ELSE <<display(p)>>])
\* Some directory below (or at) root cannot be listed.
HasUnlistable(root) ==
    \E p \in DOMAIN FS :
        /\ Len(p) >= Len(root) /\ SubSeq(p, 1, Len(root)) = root
        /\ FS[p].kind = "dir" /\ ~FS[p].listable
RootRecords == [r \in Roots |-> IF r \in DOMAIN FS THEN TreeRecords(r) ELSE <<>>]
RootSkips == [r \in Roots |-> IF r \in DOMAIN FS THEN Unbuildable(r) ELSE <<>>]
FailingRoots == {r \in Roots : r \in DOMAIN FS /\ HasUnlistable(r)}
ExpectedFiles(ds) == Flatten([j \in 1..Len(ds) |-> RootRecords[ds[j]]])
ExpectedSkips(ds) == Flatten([j \in 1..Len(ds) |-> RootSkips[ds[j]]])
SkipWarnings ==
    LET ws == SelectSeq(stdout, LAMBDA l : l.msg = "could not access file")
    IN  [k \in 1..Len(ws) |-> ws[k].arg]
C8_SkipBadEntries ==
    /\ Enumerated =>
          /\ files = ExpectedFiles(dirs)
          /\ SkipWarnings = ExpectedSkips(dirs)
    /\ err = "read_dir" => dirs[i] \in FailingRoots

C8_Witness ==
    /\ pc = "patterns"
    /\ dirs = <<<<R2>>, <<R2>>>>
    /\ Len(files) = 4
    /\ Len(SkipWarnings) = 4

\* C9: if listing a subdirectory fails during the walk, the run ends in failure
\* and emits no result path: none is printed, and the destination file is
\* neither created nor truncated.
NoResultEmitted == PrintedPaths = {} /\ dest \in {NoFile, OldFile} /\ nwrites = 0
C9_ListingFailureAborts ==
    /\ pc = "get_files" => \A j \in 1..(i - 1) : dirs[j] \notin FailingRoots
    /\ (\E j \in 1..Len(dirs) : dirs[j] \in FailingRoots)
          => (pc \in {"get_files", "panic"} /\ NoResultEmitted)
    /\ err = "read_dir" => (pc = "panic" /\ NoResultEmitted)

C9_Witness ==
    /\ pc = "panic" /\ err = "read_dir"
    /\ i = 2 /\ vec # <<>>
    /\ cli.output # None /\ dest = OldFile

\* C5: with a destination given, when the run completes the destination file
\* holds exactly the paths of the final sequence, each followed by one newline,
\* in sequence order, and nothing else (what it held before is gone), and no
\* result path is printed on the console.
ExpectedContent == Flatten([k \in 1..Len(FinalSeq) |-> JoinPath(FinalSeq[k].path) \o <<"\n">>])
Stage(s, refs) ==
    CASE s = "name" -> IF cli.patterns = None THEN refs
                       ELSE filter_files_regex(files, refs, cli.patterns[1])
      [] s = "min"  -> IF cli.size_min = None THEN refs
                       ELSE filter_files_size_min(files, refs, cli.size_min[1])
      [] s = "max"  -> IF cli.size_max = None THEN refs
                       ELSE filter_files_size_max(files, refs, cli.size_max[1])
StageOrders ==
    {o \in [1..3 -> {"name", "min", "max"}] : \A x, y \in 1..3 : x # y => o[x] # o[y]}
Chain(o) == Stage(o[3], Stage(o[2], Stage(o[1], [k \in 1..Len(files) |-> k])))
SatisfiesAll(file) == NameOK(file) /\ MinOK(file) /\ MaxOK(file)
C6_OrderIndependent ==
    /\ AtSink =>
          ffiles = SelectSeq([k \in 1..Len(files) |-> k], LAMBDA r : SatisfiesAll(files[r]))
    /\ pc = "output" => \A o \in StageOrders : Chain(o) = ffiles

C6_Witness ==
    /\ pc = "output"
    /\ cli.patterns # None /\ cli.size_min # None /\ cli.size_max # None
    /\ Len(files) = 5 /\ Len(ffiles) = 1
    /\ \E f, g, h \in Range(files) :
        /\ ~NameOK(f) /\ MinOK(f) /\ MaxOK(f)
        /\ NameOK(g) /\ ~MinOK(g) /\ MaxOK(g)
        /\ NameOK(h) /\ MinOK(h) /\ ~MaxOK(h)

\* C7: with patterns given and none of them compiling (the empty list
\* included), the name filter returns the empty sequence, so the final output is
\* empty: no fall back to passing every file.
NoneCompiles == cli.patterns # None /\ \A p \in Range(cli.patterns[1]) : regex_new(p) = None
C7_NoValidPatternRejectsAll ==
    NoneCompiles =>
        /\ pc \in {"size_min", "size_max"} \/ AtSink => ffiles = <<>>
        /\ PrintedPaths = {}
        /\ nwrites = 0
        /\ (pc = "done" /\ cli.output # None) => dest.content = <<>>

C7_Witness ==
    /\ pc = "done"
    /\ NoneCompiles /\ Len(cli.patterns[1]) = 2
    /\ cli.size_min = None /\ cli.size_max = None
    /\ Len(files) = 6
    /\ cli.output # None /\ dest = [exists |-> TRUE, content |-> <<>>]

\* C10: with a destination given, when creating or writing it fails the run
\* ends in failure and does not fall back to the console: no result path is
\* printed; the destination may be left created but incomplete.
DestErrs == {"output failed", "cannot open file", "write failed"}
IsPrefix(s, t) == Len(s) <= Len(t) /\ SubSeq(t, 1, Len(s)) = s
C10_OutputFailureIsFatal ==
    /\ cli.output # None => PrintedPaths = {}
    /\ err \in DestErrs =>
          /\ pc = "panic" /\ cli.output # None
          /\ err = "output failed" => dest \in {NoFile, OldFile}
          /\ err = "cannot open file" => dest = [exists |-> TRUE, content |-> <<>>]
          /\ err = "write failed" =>
                dest.exists /\ IsPrefix(dest.content, ExpectedContent)
                            /\ dest.content # ExpectedContent
    /\ pc = "done" => err = ""

C10_Witness ==
    /\ pc = "panic" /\ err = "write failed"
    /\ dest.exists /\ dest.content # <<>> /\ dest.content # ExpectedContent
    /\ Len(ffiles) >= 2 /\ nwrites = 3

====
